---- MODULE Spec2Model ----
(***************************************************************************)
(* A model of src/app.py: the Flask contact-form relay.  A submission is   *)
(* checked against the site registry and the credentials registry, its     *)
(* body is rendered with the site's Jinja2 template or with the default    *)
(* template, and the e-mail is relayed over SMTP.                          *)
(*                                                                         *)
(* Text.  A Python str is modelled as a sequence of fragments.  Text that  *)
(* arrives in a submitted form is spelled one character per fragment, so   *)
(* that replace(), capitalize() and html.escape() act on it character by   *)
(* character as they do in Python.  Literals of the program and values of  *)
(* the configuration files are a single fragment each; an f-string is the  *)
(* concatenation of its pieces.                                            *)
(***************************************************************************)
EXTENDS Integers, Sequences, FiniteSets, TLC

\* Number of requests the server handles, concurrently and in any interleaving.
NumReqs == 2

Reqs == 1..NumReqs

\* A literal or configuration string.
T(s) == <<s>>

\* Python's None; formatted by an f-string it reads "None".  No form value
\* equals it: form text is spelled one character per fragment.
None == <<"None">>

(***************************************************************************)
(* Configuration: allowed_sites.json, smtp_credentials.json, templates/    *)
(***************************************************************************)
Acme  == <<"a","c","m","e">>
Beta  == <<"b","e","t","a">>
Gamma == <<"g","a","m","m","a">>
Delta == <<"d","e","l","t","a">>
Eps   == <<"e","p","s">>
Zeta  == <<"z","e","t","a">>
Eta   == <<"e","t","a">>
Theta == <<"t","h","e","t","a">>
Ghost == <<"g","h","o","s","t">>
Nosuch == <<"n","o","n","e">>

OriginAcme == T("https://acme.example")
OriginBeta == T("https://beta.example")
OriginEvil == T("https://evil.example")

\* allowed_sites.json: site_id -> allowed origin.
AllowedSitesFile ==
  [s \in {Acme, Beta, Gamma, Delta, Eps, Zeta, Eta, Theta} |->
     CASE s = Acme -> OriginAcme
       [] s = Beta -> OriginBeta
       [] OTHER    -> T("https://") \o s \o T(".example")]

FullCreds(name) ==
  [host |-> T("smtp.") \o name, port |-> 587,
   username |-> T("mailer@") \o name, password |-> T("pw-") \o name,
   recipient_email |-> T("owner@") \o name]

\* smtp_credentials.json: site_id -> SMTP settings.  Acme, Delta, Gamma and
\* Theta omit "secure", "from_email" and "from_name"; Beta sets all three;
\* Zeta's entry is the empty object; Eta's entry lacks "host"; Eps has no
\* entry; Ghost has an entry but is no allowed site.
SmtpCredentialsFile ==
  [s \in {Acme, Beta, Gamma, Delta, Zeta, Eta, Theta, Ghost} |->
     CASE s = Beta ->
            [host |-> T("smtp.beta"), port |-> 25,
             username |-> T("mailer@beta"), password |-> T("pw-beta"),
             secure |-> T("none"), recipient_email |-> T("owner@beta"),
             from_email |-> T("forms@beta"), from_name |-> T("Beta Forms")]
       [] s = Zeta -> <<>>
       [] s = Eta  ->
            [port |-> 587, username |-> T("mailer@eta"),
             password |-> T("pw-eta"), recipient_email |-> T("owner@eta")]
       [] OTHER -> FullCreds(s)]

\* templates/: what each template file is.
\*   "echo"      a well-formed template that prints data["message"]
\*   "default"   default.html, which prints form_fields inside a table
\*   "syntax"    a template whose source does not compile (TemplateSyntaxError)
\*   "include"   a well-formed template that includes a template that is not
\*               there (jinja2 raises TemplateNotFound while rendering it)
\*   "undefined" a well-formed template whose rendering raises UndefinedError
TemplatesDir ==
  [n \in {Acme \o T(".html"), Gamma \o T(".html"), Delta \o T(".html"),
          Theta \o T(".html"), T("default.html")} |->
     CASE n = Acme \o T(".html")  -> "echo"
       [] n = Gamma \o T(".html") -> "syntax"
       [] n = Delta \o T(".html") -> "include"
       [] n = Theta \o T(".html") -> "undefined"
       [] OTHER -> "default"]

(***************************************************************************)
(* Submissions                                                             *)
(***************************************************************************)
KSiteId   == <<"s","i","t","e","_","i","d">>
KMessage  == <<"m","e","s","s","a","g","e">>
KFullName == <<"f","u","l","l","_","n","a","m","e">>
KReplyTo  == <<"R","e","p","l","y","_","T","O">>

\* A request: its Origin header and its form, the (key, value) pairs of the
\* form-encoded body in the order they were submitted.
Req(origin, form) == [origin |-> origin, form |-> form]

Submissions ==
  { Req(OriginBeta, << <<KSiteId, Acme>>, <<KMessage, <<"h","i">> >> >>),
    Req(OriginEvil, << <<KSiteId, Beta>>, <<KFullName, <<"A","&","B">> >>,
                       <<KMessage, <<"l","1","\n","l","2">> >> >>),
    Req(OriginBeta, << <<KReplyTo, <<"<","a",">">> >>, <<KSiteId, Beta>>,
                       <<KReplyTo, <<"x">> >>, <<KSiteId, Acme>> >>),
    Req(OriginAcme, << <<KSiteId, Gamma>>, <<KMessage, <<"h","i">> >> >>),
    Req(OriginAcme, << <<KSiteId, Delta>>, <<KMessage, <<"\"","'">> >> >>),
    Req(OriginAcme, << <<KSiteId, Theta>> >>),
    Req(OriginAcme, << <<KSiteId, Eps>> >>),
    Req(OriginAcme, << <<KSiteId, Zeta>> >>),
    Req(OriginEvil, << <<KSiteId, Eta>> >>),
    Req(OriginAcme, << <<KSiteId, Ghost>> >>),
    Req(OriginAcme, << <<KSiteId, Nosuch>> >>),
    Req(OriginEvil, << <<KMessage, <<"h","i">> >> >>) }

NoRequest == Req(None, <<>>)

\* request.form.get(key): the first value submitted under key, or None.
RECURSIVE FormGet(_, _)
FormGet(form, key) ==
  IF form = <<>> THEN None
  ELSE IF Head(form)[1] = key THEN Head(form)[2]
  ELSE FormGet(Tail(form), key)

\* request.form.items(): one (key, first value) pair per distinct key, in the
\* order the keys first appear.
RECURSIVE FormItemsFrom(_, _)
FormItemsFrom(form, seen) ==
  IF form = <<>> THEN <<>>
  ELSE IF Head(form)[1] \in seen THEN FormItemsFrom(Tail(form), seen)
  ELSE <<Head(form)>> \o FormItemsFrom(Tail(form), seen \cup {Head(form)[1]})

FormItems(form) == FormItemsFrom(form, {})

(***************************************************************************)
(* State                                                                   *)
(***************************************************************************)
VARIABLES
  allowed_sites,     \* the site registry
  smtp_credentials,  \* the credentials registry
  origin_map,        \* the origin whitelist derived from the site registry
  templates,         \* the template directory of the Jinja2 environment
  pc,                \* where the handling of each request stands
  request,           \* the request each handler was called with
  cors_ok,           \* cors_origin_validator's answer for the request's Origin
  loc,               \* submit_form's local variables
  render,            \* which rendering path was taken, rows and html_content
  msg,               \* the composed message
  smtp,              \* the calls made on the request's smtplib.SMTP session
  log,               \* the messages the handler logged
  resp               \* the responses produced for the request

vars == <<allowed_sites, smtp_credentials, origin_map, templates, pc, request,
          cors_ok, loc, render, msg, smtp, log, resp>>

config == <<allowed_sites, smtp_credentials, origin_map, templates>>

NoRender == [path |-> "none", rows |-> <<>>, html |-> <<>>]

Init ==
  /\ allowed_sites = AllowedSitesFile
  /\ smtp_credentials = SmtpCredentialsFile
  /\ origin_map = [site_id \in DOMAIN AllowedSitesFile |-> AllowedSitesFile[site_id]]
  /\ templates = TemplatesDir
  /\ pc = [r \in Reqs |-> "Idle"]
  /\ request = [r \in Reqs |-> NoRequest]
  /\ cors_ok = [r \in Reqs |-> FALSE]
  /\ loc = [r \in Reqs |-> <<>>]
  /\ render = [r \in Reqs |-> NoRender]
  /\ msg = [r \in Reqs |-> <<>>]
  /\ smtp = [r \in Reqs |-> <<>>]
  /\ log = [r \in Reqs |-> <<>>]
  /\ resp = [r \in Reqs |-> <<>>]

(***************************************************************************)
(* Responses                                                               *)
(***************************************************************************)
\* jsonify(body), status: a JSON response.
Json(status, body) == [status |-> status, ctype |-> "application/json", body |-> body]

\* What Flask answers when an exception leaves the view function: its
\* "500 Internal Server Error" page, which is no JSON document.
Unhandled(exc) ==
  [status |-> 500, ctype |-> "text/html", body |-> [html |-> "Internal Server Error"]]

Exc(type, text) == [type |-> type, text |-> text]

LogLine(level, text) == [level |-> level, text |-> text]

(***************************************************************************)
(* Origin policy                                                           *)
(***************************************************************************)
\* Membership in the map itself, that is among its keys, the site ids.
cors_origin_validator_keys(origin) == origin \in DOMAIN origin_map

cors_origin_validator(origin) ==
  \E site_id \in DOMAIN origin_map : origin_map[site_id] = origin

\* A request arrives and Flask routes it to submit_form.  flask_cors consults
\* cors_origin_validator to decide the CORS headers of the response; the
\* route is dispatched whatever the answer.
Receive(r) ==
  /\ pc[r] = "Idle"
  /\ \E sub \in Submissions :
       /\ request' = [request EXCEPT ![r] = sub]
       /\ cors_ok' = [cors_ok EXCEPT ![r] = cors_origin_validator(sub.origin)]
  /\ pc' = [pc EXCEPT ![r] = "Received"]
  /\ UNCHANGED <<config, loc, render, msg, smtp, log, resp>>

(***************************************************************************)
(* submit_form: validation (lines 45-64)                                   *)
(***************************************************************************)
\* A lookup in the wrong registry: any site with credentials passes.
SiteKnownInCredentials(site_id) == site_id \in DOMAIN smtp_credentials

\* site_id in allowed_sites
SiteKnown(site_id) == site_id \in DOMAIN allowed_sites

\* What dict.get returns for a key the credentials registry does not hold.
NoneCreds == [py_none |-> TRUE]

\* smtp_credentials.get(site_id)
CredsGet(site_id) ==
  IF site_id \in DOMAIN smtp_credentials THEN smtp_credentials[site_id] ELSE NoneCreds

\* A test for the empty entry only, which lets None through.
TruthyUnlessEmpty(creds) == DOMAIN creds # {}

\* Python truth of what the lookup returned: None and the empty dict are false.
Truthy(creds) == DOMAIN creds # {} /\ creds # NoneCreds

\* The keys read with creds[...]: a missing one raises KeyError.
RequiredKeys == <<"host", "port", "username", "password", "recipient_email">>

\* The first required key that creds lacks, in the order the code reads them,
\* or "" when creds has them all.  recipient_email is read after the optional
\* "secure", which cannot raise.
RECURSIVE FirstMissing(_, _)
FirstMissing(creds, keys) ==
  IF keys = <<>> THEN ""
  ELSE IF Head(keys) \notin DOMAIN creds THEN Head(keys)
  ELSE FirstMissing(creds, Tail(keys))

\* A default of no transport security when "secure" is omitted.
SecureModeDefaultNone(creds) ==
  IF "secure" \in DOMAIN creds THEN creds.secure ELSE T("none")

\* creds.get("secure", "tls")
SecureMode(creds) == IF "secure" \in DOMAIN creds THEN creds.secure ELSE T("tls")

\* creds.get("from_email", smtp_user)
FromEmail(creds) ==
  IF "from_email" \in DOMAIN creds THEN creds.from_email ELSE creds.username

\* A sender name that defaults to the SMTP user.
FromNameDefaultUser(creds, site_id) ==
  IF "from_name" \in DOMAIN creds THEN creds.from_name ELSE creds.username

\* creds.get("from_name", site_id)
FromName(creds, site_id) ==
  IF "from_name" \in DOMAIN creds THEN creds.from_name ELSE site_id

Locals(site_id, creds) ==
  [site_id |-> site_id,
   smtp_host |-> creds.host, smtp_port |-> creds.port,
   smtp_user |-> creds.username, smtp_pass |-> creds.password,
   smtp_secure |-> SecureMode(creds),
   recipient_email |-> creds.recipient_email,
   from_email |-> FromEmail(creds), from_name |-> FromName(creds, site_id)]

\* Ends the handling of r: the response is produced and the handler returns.
Finish(r, state, response) ==
  /\ pc' = [pc EXCEPT ![r] = state]
  /\ resp' = [resp EXCEPT ![r] = Append(@, response)]

Validate(r) ==
  /\ pc[r] = "Received"
  /\ LET data == request[r].form
         site_id == FormGet(data, KSiteId)
         creds == CredsGet(site_id)
         missing == FirstMissing(creds, RequiredKeys)
     IN  IF ~SiteKnown(site_id) THEN
           /\ Finish(r, "RejectedUnknownSite",
                     Json(400, [success |-> FALSE, error |-> "Invalid site ID"]))
           /\ log' = [log EXCEPT ![r] = Append(@, LogLine("warning",
                        T("Rejected form: unknown site_id '") \o site_id \o T("'")))]
           /\ loc' = [loc EXCEPT ![r] = [site_id |-> site_id]]
         ELSE IF ~Truthy(creds) THEN
           /\ Finish(r, "RejectedNoCredentials",
                     Json(500, [success |-> FALSE, error |-> "Missing SMTP credentials"]))
           /\ log' = [log EXCEPT ![r] = Append(@, LogLine("error",
                        T("No SMTP credentials for site_id '") \o site_id \o T("'")))]
           /\ loc' = [loc EXCEPT ![r] = [site_id |-> site_id]]
         ELSE IF missing # "" THEN
           \* creds[missing] raises KeyError outside any try block.
           /\ Finish(r, "Faulted", Unhandled(Exc("KeyError", missing)))
           /\ loc' = [loc EXCEPT ![r] = [site_id |-> site_id]]
           /\ UNCHANGED log
         ELSE
           /\ pc' = [pc EXCEPT ![r] = "Validated"]
           /\ loc' = [loc EXCEPT ![r] = Locals(site_id, creds)]
           /\ UNCHANGED <<log, resp>>
  /\ UNCHANGED <<config, request, cors_ok, render, msg, smtp>>

(***************************************************************************)
(* Text functions of the Python library                                    *)
(***************************************************************************)
LowerCase == <<"a","b","c","d","e","f","g","h","i","j","k","l","m",
               "n","o","p","q","r","s","t","u","v","w","x","y","z">>
UpperCase == <<"A","B","C","D","E","F","G","H","I","J","K","L","M",
               "N","O","P","Q","R","S","T","U","V","W","X","Y","Z">>

Upper(c) ==
  IF \E i \in 1..26 : LowerCase[i] = c
  THEN UpperCase[CHOOSE i \in 1..26 : LowerCase[i] = c] ELSE c

Lower(c) ==
  IF \E i \in 1..26 : UpperCase[i] = c
  THEN LowerCase[CHOOSE i \in 1..26 : UpperCase[i] = c] ELSE c

\* str.replace(old, new) for a one-character old.
RECURSIVE Replace(_, _, _)
Replace(text, old, new) ==
  IF text = <<>> THEN <<>>
  ELSE (IF Head(text) = old THEN <<new>> ELSE <<Head(text)>>)
       \o Replace(Tail(text), old, new)

\* str.capitalize(): the first character in upper case, the rest in lower case.
Capitalize(text) ==
  [i \in 1..Len(text) |-> IF i = 1 THEN Upper(text[i]) ELSE Lower(text[i])]

EscapeChar(c) ==
  CASE c = "&"  -> "&amp;"
    [] c = "<"  -> "&lt;"
    [] c = ">"  -> "&gt;"
    [] c = "\"" -> "&quot;"
    [] c = "'"  -> "&#x27;"
    [] OTHER    -> c

\* html.escape(text), quote=True
HtmlEscape(text) == [i \in 1..Len(text) |-> EscapeChar(text[i])]

(***************************************************************************)
(* The Jinja2 environment                                                  *)
(***************************************************************************)
Ok(value) == [ok |-> TRUE, value |-> value]
Raise(exc) == [ok |-> FALSE, exc |-> exc]

\* env.get_template(name): loads and compiles the named file.
GetTemplate(name) ==
  IF name \notin DOMAIN templates THEN Raise(Exc("TemplateNotFound", name))
  ELSE IF templates[name] = "syntax" THEN Raise(Exc("TemplateSyntaxError", name))
  ELSE Ok(templates[name])

\* template.render(data=data) of a site template.
RenderSite(kind, data) ==
  CASE kind = "echo" ->
         Ok(T("<p>") \o (IF FormGet(data, KMessage) = None THEN <<>>
                         ELSE FormGet(data, KMessage)) \o T("</p>"))
    [] kind = "include"   -> Raise(Exc("TemplateNotFound", T("missing.html")))
    [] kind = "undefined" -> Raise(Exc("UndefinedError", T("'data' is undefined")))
    [] OTHER -> Ok(T("<table>") \o T("</table>"))

\* template.render(form_fields=rows) of default.html.
RenderDefault(kind, rows) ==
  CASE kind = "include"   -> Raise(Exc("TemplateNotFound", T("missing.html")))
    [] kind = "undefined" -> Raise(Exc("UndefinedError", T("'form_fields' is undefined")))
    [] kind = "echo"      -> Ok(T("<p>") \o T("</p>"))
    [] OTHER -> Ok(T("<table>") \o rows \o T("</table>"))

(***************************************************************************)
(* submit_form: rendering and composition (lines 66-87)                    *)
(***************************************************************************)
\* except TemplateNotFound: the exceptions the fallback handler catches.
CaughtAsNotFound(exc) == exc.type = "TemplateNotFound"

\* label = html.escape(key.replace("_", " ").capitalize())
Label(key) == HtmlEscape(Capitalize(Replace(key, "_", " ")))

\* The value escaped, its newlines left as they are.
SafeValueNoBreaks(value) == HtmlEscape(value)

\* safe_value = html.escape(value).replace("\n", "<br>")
SafeValue(value) == Replace(HtmlEscape(value), "\n", "<br>")

Row(key, value) ==
  T("<tr><td><strong>") \o Label(key) \o T("</strong></td><td>")
    \o SafeValue(value) \o T("</td></tr>")

\* The loop of lines 73-79 over data.items().
RECURSIVE RowsOf(_)
RowsOf(items) ==
  IF items = <<>> THEN <<>>
  ELSE (IF Head(items)[1] = KSiteId THEN <<>> ELSE Row(Head(items)[1], Head(items)[2]))
       \o RowsOf(Tail(items))

Rows(data) == RowsOf(FormItems(data))

\* Lines 68-70: the site's own template.
SiteAttempt(site_id, data) ==
  LET loaded == GetTemplate(site_id \o T(".html"))
  IN  IF loaded.ok THEN RenderSite(loaded.value, data) ELSE loaded

\* Lines 72-80: the default template with the generated rows.
FallbackAttempt(data) ==
  LET loaded == GetTemplate(T("default.html"))
  IN  IF loaded.ok THEN RenderDefault(loaded.value, Rows(data)) ELSE loaded

\* Lines 83-87.
Compose(l, html_content) ==
  [subtype |-> "alternative",
   Subject |-> T("New Contact Form Submission from ") \o l.site_id,
   From |-> l.from_name \o T(" <") \o l.from_email \o T(">"),
   To |-> l.recipient_email,
   parts |-> << [subtype |-> "html", payload |-> html_content] >>]

Render(r) ==
  /\ pc[r] = "Validated"
  /\ LET data == request[r].form
         site == SiteAttempt(loc[r].site_id, data)
         fallback == FallbackAttempt(data)
         default == GetTemplate(T("default.html"))
         Rendered(path, rows, html_content) ==
           /\ pc' = [pc EXCEPT ![r] = "Rendered"]
           /\ render' = [render EXCEPT ![r] =
                           [path |-> path, rows |-> rows, html |-> html_content]]
           /\ msg' = [msg EXCEPT ![r] = Compose(loc[r], html_content)]
           /\ UNCHANGED resp
         Escapes(path, rows, exc) ==
           \* The exception leaves submit_form: nothing here catches it.
           /\ Finish(r, "RejectedRenderError", Unhandled(exc))
           /\ render' = [render EXCEPT ![r] =
                           [path |-> path, rows |-> rows, html |-> <<>>]]
           /\ UNCHANGED msg
     IN  IF site.ok THEN Rendered("site", <<>>, site.value)
         ELSE IF ~CaughtAsNotFound(site.exc) THEN Escapes("site", <<>>, site.exc)
         ELSE IF fallback.ok THEN Rendered("fallback", Rows(data), fallback.value)
         ELSE Escapes("fallback", IF default.ok THEN Rows(data) ELSE <<>>,
                      fallback.exc)
  /\ UNCHANGED <<config, request, cors_ok, loc, smtp, log>>

(***************************************************************************)
(* submit_form: delivery (lines 89-100)                                    *)
(***************************************************************************)
\* str(e) of the exception each smtplib call raises when it fails.
SmtpCause(call) ==
  CASE call = "SMTP"         -> "[Errno 111] Connection refused"
    [] call = "starttls"     -> "STARTTLS extension not supported by server."
    [] call = "login"        -> "(535, b'Authentication failed')"
    [] call = "send_message" -> "(554, b'Transaction failed')"
    [] OTHER                 -> "Connection unexpectedly closed"

\* One call on the request's SMTP session, with its arguments and whether it
\* returned (ok) or raised.
Call(call, args, ok) == [call |-> call, args |-> args, ok |-> ok]

\* if smtp_secure == "tls"
WantsStartTLS(l) == l.smtp_secure = T("tls")

\* The except block without its status code: Flask then answers 200.
DeliveryFailedNoStatus(r, call) ==
  /\ pc' = [pc EXCEPT ![r] = "RejectedDeliveryError"]
  /\ resp' = [resp EXCEPT ![r] =
                Append(@, Json(200, [success |-> FALSE, error |-> SmtpCause(call)]))]
  /\ log' = [log EXCEPT ![r] = Append(@, LogLine("error",
               T("Email failed: ") \o T(SmtpCause(call))))]

\* A failure of quit() swallowed, the message having gone out already.
DeliveryFailedQuitIgnored(r, call) ==
  IF call = "quit" THEN
    /\ pc' = [pc EXCEPT ![r] = "Responded"]
    /\ resp' = [resp EXCEPT ![r] = Append(@, Json(200, [success |-> TRUE]))]
    /\ UNCHANGED log
  ELSE
    /\ pc' = [pc EXCEPT ![r] = "RejectedDeliveryError"]
    /\ resp' = [resp EXCEPT ![r] =
                  Append(@, Json(500, [success |-> FALSE, error |-> SmtpCause(call)]))]
    /\ log' = [log EXCEPT ![r] = Append(@, LogLine("error",
                 T("Email failed: ") \o T(SmtpCause(call))))]

\* An except block whose log line adds the login it tried.
DeliveryFailedLogsLogin(r, call) ==
  /\ pc' = [pc EXCEPT ![r] = "RejectedDeliveryError"]
  /\ resp' = [resp EXCEPT ![r] =
                Append(@, Json(500, [success |-> FALSE, error |-> SmtpCause(call)]))]
  /\ log' = [log EXCEPT ![r] = Append(@, LogLine("error",
               T("Email failed: ") \o T(SmtpCause(call)) \o T(" login=")
                 \o loc[r].smtp_user \o T(":") \o loc[r].smtp_pass))]

\* except Exception as e (lines 98-100).  The log line's leading emoji is
\* left out of the text.
DeliveryFailed(r, call) ==
  /\ Finish(r, "RejectedDeliveryError",
            Json(500, [success |-> FALSE, error |-> SmtpCause(call)]))
  /\ log' = [log EXCEPT ![r] = Append(@, LogLine("error",
               T("Email failed: ") \o T(SmtpCause(call))))]

\* A step that drops the site's entry from the credentials registry when
\* the server refuses its login.
StepForgetsRefusedLogin(r, call, args, next) ==
  \E ok \in BOOLEAN :
    /\ smtp' = [smtp EXCEPT ![r] = Append(@, Call(call, args, ok))]
    /\ IF ok THEN /\ pc' = [pc EXCEPT ![r] = next]
                  /\ UNCHANGED <<log, resp>>
       ELSE DeliveryFailed(r, call)
    /\ IF ~ok /\ call = "login"
       THEN smtp_credentials' =
              [s \in DOMAIN smtp_credentials \ {loc[r].site_id} |-> smtp_credentials[s]]
       ELSE UNCHANGED smtp_credentials
    /\ UNCHANGED <<allowed_sites, origin_map, templates, request, cors_ok, loc,
                   render, msg>>

\* A step whose failure is swallowed: the handler goes on with the next call.
StepContinuesOnError(r, call, args, next) ==
  \E ok \in BOOLEAN :
    /\ smtp' = [smtp EXCEPT ![r] = Append(@, Call(call, args, ok))]
    /\ pc' = [pc EXCEPT ![r] = next]
    /\ UNCHANGED <<config, request, cors_ok, loc, render, msg, log, resp>>

\* A step that treats a refused transmission as done and goes on to quit.
StepSwallowsSendFailure(r, call, args, next) ==
  \E ok \in BOOLEAN :
    /\ smtp' = [smtp EXCEPT ![r] = Append(@, Call(call, args, ok))]
    /\ IF ok \/ call = "send_message"
       THEN /\ pc' = [pc EXCEPT ![r] = next]
            /\ UNCHANGED <<log, resp>>
       ELSE DeliveryFailed(r, call)
    /\ UNCHANGED <<config, request, cors_ok, loc, render, msg>>

\* A call of the try block: it returns and the handler moves on to next, or
\* it raises and the except block answers.
Step(r, call, args, next) ==
  \E ok \in BOOLEAN :
    /\ smtp' = [smtp EXCEPT ![r] = Append(@, Call(call, args, ok))]
    /\ IF ok THEN /\ pc' = [pc EXCEPT ![r] = next]
                  /\ UNCHANGED <<log, resp>>
       ELSE DeliveryFailed(r, call)
    /\ UNCHANGED <<config, request, cors_ok, loc, render, msg>>

\* A connection opened as soon as the credentials are read, before the body
\* is rendered.
ConnectBeforeRender(r) ==
  /\ pc[r] \in {"Validated", "Rendered"}
  /\ Step(r, "SMTP", <<loc[r].smtp_host, loc[r].smtp_port, 10>>, "Connected")

\* server = smtplib.SMTP(smtp_host, smtp_port, timeout=10)
Connect(r) ==
  /\ pc[r] = "Rendered"
  /\ Step(r, "SMTP", <<loc[r].smtp_host, loc[r].smtp_port, 10>>, "Connected")

\* server.starttls()
StartTLS(r) ==
  /\ pc[r] = "Connected"
  /\ WantsStartTLS(loc[r])
  /\ Step(r, "starttls", <<>>, "Secured")

\* The login of a handler that reads the credentials from a place shared by
\* all requests, where the first request that validated left its own.
LoginShared(r) ==
  /\ \/ pc[r] = "Secured"
     \/ pc[r] = "Connected" /\ ~WantsStartTLS(loc[r])
  /\ LET l == IF "smtp_user" \in DOMAIN loc[1] THEN loc[1] ELSE loc[r]
     IN  Step(r, "login", <<l.smtp_user, l.smtp_pass>>, "Authenticated")

\* server.login(smtp_user, smtp_pass)
Login(r) ==
  /\ \/ pc[r] = "Secured"
     \/ pc[r] = "Connected" /\ ~WantsStartTLS(loc[r])
  /\ Step(r, "login", <<loc[r].smtp_user, loc[r].smtp_pass>>, "Authenticated")

\* A handler that skips the transmission when an identical submission of
\* another request has already been transmitted.
SendMessageDeduplicated(r) ==
  /\ pc[r] = "Authenticated"
  /\ IF \E q \in Reqs \ {r} :
          /\ request[q] = request[r]
          /\ \E i \in 1..Len(smtp[q]) : smtp[q][i].call = "send_message" /\ smtp[q][i].ok
     THEN /\ pc' = [pc EXCEPT ![r] = "Transmitted"]
          /\ UNCHANGED <<config, request, cors_ok, loc, render, msg, smtp, log, resp>>
     ELSE Step(r, "send_message", <<msg[r]>>, "Transmitted")

\* server.send_message(msg)
SendMessage(r) ==
  /\ pc[r] = "Authenticated"
  /\ Step(r, "send_message", <<msg[r]>>, "Transmitted")

\* server.quit(), then the success log line and the 200 response.
Quit(r) ==
  /\ pc[r] = "Transmitted"
  /\ \E ok \in BOOLEAN :
       /\ smtp' = [smtp EXCEPT ![r] = Append(@, Call("quit", <<>>, ok))]
       /\ IF ok THEN
            /\ Finish(r, "Responded", Json(200, [success |-> TRUE]))
            /\ log' = [log EXCEPT ![r] = Append(@, LogLine("info",
                         T("Email sent for site_id: ") \o loc[r].site_id))]
          ELSE DeliveryFailed(r, "quit")
  /\ UNCHANGED <<config, request, cors_ok, loc, render, msg>>

Next ==
  \E r \in Reqs :
    \/ Receive(r)
    \/ Validate(r)
    \/ Render(r)
    \/ Connect(r)
    \/ StartTLS(r)
    \/ Login(r)
    \/ SendMessage(r)
    \/ Quit(r)

Spec == Init /\ [][Next]_vars

(***************************************************************************)
(* Properties                                                              *)
(***************************************************************************)
\* The site_id submit_form reads from the request.
SiteIdOf(r) == FormGet(request[r].form, KSiteId)

\* submit_form has run its validation on the request.
Entered(r) == pc[r] \notin {"Idle", "Received"}

TerminalStates ==
  {"Responded", "RejectedUnknownSite", "RejectedNoCredentials",
   "RejectedRenderError", "RejectedDeliveryError"}

InvalidSite == Json(400, [success |-> FALSE, error |-> "Invalid site ID"])
MissingCredentials == Json(500, [success |-> FALSE, error |-> "Missing SMTP credentials"])
Success == Json(200, [success |-> TRUE])

\* The credentials entry of r's site says tls, or says nothing about it.
TlsConfigured(r) ==
  /\ SiteIdOf(r) \in DOMAIN smtp_credentials
  /\ LET c == smtp_credentials[SiteIdOf(r)]
     IN  "secure" \in DOMAIN c => c.secure = T("tls")

\* The calls a complete delivery makes, in order.
FullSession(r) ==
  IF TlsConfigured(r) THEN <<"SMTP", "starttls", "login", "send_message", "quit">>
  ELSE <<"SMTP", "login", "send_message", "quit">>

CallNames(calls) == [i \in 1..Len(calls) |-> calls[i].call]

\* C1: a submission whose site_id is not a key of the site registry (no
\* site_id field at all, or a site_id that only the credentials registry
\* knows, included) is answered 400 {success: false, error: "Invalid site ID"}.
C1_UnknownSiteRejected ==
  \A r \in Reqs :
    (Entered(r) /\ SiteIdOf(r) \notin DOMAIN allowed_sites)
      => /\ pc[r] = "RejectedUnknownSite"
         /\ resp[r] = <<InvalidSite>>

C1_Witness ==
  \E r1, r2 \in Reqs :
    /\ SiteIdOf(r1) = None /\ resp[r1] = <<InvalidSite>>
    /\ SiteIdOf(r2) = Ghost /\ Ghost \in DOMAIN smtp_credentials
    /\ resp[r2] = <<InvalidSite>>

\* C2: a submission whose site_id is in the site registry and has no entry
\* in the credentials registry is answered 500 {success: false, error:
\* "Missing SMTP credentials"}.
C2_NoCredentialsRejected ==
  \A r \in Reqs :
    (/\ Entered(r)
     /\ SiteIdOf(r) \in DOMAIN allowed_sites
     /\ SiteIdOf(r) \notin DOMAIN smtp_credentials)
      => /\ pc[r] = "RejectedNoCredentials"
         /\ resp[r] = <<MissingCredentials>>

C2_Witness ==
  \E r \in Reqs :
    /\ SiteIdOf(r) = Eps /\ Eps \in DOMAIN allowed_sites
    /\ Eps \notin DOMAIN smtp_credentials
    /\ resp[r] = <<MissingCredentials>>

\* C3: every handling ends in one of the five terminal states, with exactly
\* one HTTP status and a JSON body {success: bool, error?: string}; no
\* failure of a component leaves submit_form as an unhandled exception.
C3_EveryOutcomeStructured ==
  \A r \in Reqs :
    /\ Len(resp[r]) <= 1
    /\ pc[r] # "Faulted"
    /\ Len(resp[r]) = 1 =>
         /\ pc[r] \in TerminalStates
         /\ resp[r][1].ctype = "application/json"
         /\ DOMAIN resp[r][1].body \in {{"success"}, {"success", "error"}}
         /\ resp[r][1].body.success \in BOOLEAN

\* C4: with a known site, credentials and a rendered body, a failure of any
\* delivery call (connect, STARTTLS, login, send_message, quit) is answered
\* 500 {success: false, error: <str of the cause>}, whatever the stage.
C4_DeliveryFailureUniform ==
  \A r \in Reqs :
    (Len(smtp[r]) > 0 /\ ~smtp[r][Len(smtp[r])].ok)
      => /\ pc[r] = "RejectedDeliveryError"
         /\ resp[r] = <<Json(500, [success |-> FALSE,
                                   error |-> SmtpCause(smtp[r][Len(smtp[r])].call)])>>

C4_Witness ==
  \E r1, r2 \in Reqs :
    /\ CallNames(smtp[r1]) = <<"SMTP", "starttls">> /\ ~smtp[r1][2].ok
    /\ CallNames(smtp[r2]) = <<"SMTP", "login", "send_message", "quit">>
    /\ ~smtp[r2][4].ok
    /\ resp[r1] # <<>> /\ resp[r2] # <<>>
    /\ resp[r1][1].status = 500 /\ resp[r2][1].status = 500

\* The request went through every stage: known site, credentials present,
\* body rendered, and every call of the session returned.
Sent(r) ==
  /\ SiteIdOf(r) \in DOMAIN allowed_sites
  /\ SiteIdOf(r) \in DOMAIN smtp_credentials
  /\ render[r].path # "none"
  /\ CallNames(smtp[r]) = FullSession(r)
  /\ \A i \in 1..Len(smtp[r]) : smtp[r][i].ok

\* C5: the answer is 200 {success: true}, with no error field, exactly when
\* the site is known, credentials exist, rendering succeeded and connect,
\* STARTTLS (when secure is tls), login, send_message and quit all returned.
C5_SuccessIffSent ==
  \A r \in Reqs :
    /\ (resp[r] # <<>> /\ resp[r][1].status = 200) <=> Sent(r)
    /\ Sent(r) => resp[r] = <<Success>>

C5_Witness ==
  \E r1, r2 \in Reqs :
    /\ TlsConfigured(r1) /\ resp[r1] = <<Success>>
    /\ ~TlsConfigured(r2) /\ resp[r2] = <<Success>>

\* C6: an SMTP session that submit_form opened has been closed by the time
\* the response is produced, after a success and after a failure alike.
C6_SessionClosedOnEveryExit ==
  \A r \in Reqs :
    (resp[r] # <<>> /\ Len(smtp[r]) > 0 /\ smtp[r][1].ok)
      => \E i \in 1..Len(smtp[r]) : smtp[r][i].call = "quit"

\* C7: when the site's secure mode is tls, stated or by default, login is
\* only ever called on a session whose starttls() has returned.
C7_StartTlsBeforeLogin ==
  \A r \in Reqs :
    TlsConfigured(r) =>
      \A i \in 1..Len(smtp[r]) :
        smtp[r][i].call = "login" =>
          \E j \in 1..(i - 1) : smtp[r][j].call = "starttls" /\ smtp[r][j].ok

C7_Witness ==
  \E r \in Reqs :
    /\ SiteIdOf(r) = Acme
    /\ "secure" \notin DOMAIN smtp_credentials[Acme]
    /\ \E i \in 1..Len(smtp[r]) : smtp[r][i].call = "login"

\* Some tenant's allowed origin is origin.
OriginOfSomeTenant(origin) ==
  \E site_id \in DOMAIN allowed_sites : allowed_sites[site_id] = origin

\* C8: for a request whose Origin is no tenant's allowed origin, submit_form
\* performs no validation, rendering or delivery step.
C8_ForeignOriginNeverHandled ==
  \A r \in Reqs :
    (pc[r] # "Idle" /\ ~OriginOfSomeTenant(request[r].origin))
      => /\ pc[r] = "Received"
         /\ render[r] = NoRender
         /\ smtp[r] = <<>>
         /\ resp[r] = <<>>

\* C9: cors_origin_validator(origin) is true exactly when origin is the
\* allowed origin of some tenant of the site registry, whichever site the
\* submission names.
C9_ValidatorIsValueMembership ==
  \A r \in Reqs :
    pc[r] # "Idle" => (cors_ok[r] <=> OriginOfSomeTenant(request[r].origin))

C9_Witness ==
  \E r1, r2 \in Reqs :
    /\ pc[r1] # "Idle" /\ pc[r2] # "Idle"
    /\ SiteIdOf(r1) = Acme /\ request[r1].origin = allowed_sites[Beta] /\ cors_ok[r1]
    /\ request[r2].origin = OriginEvil /\ ~cors_ok[r2]

\* C10: the fallback path is entered only when the template named for the
\* site_id does not exist; any other failure of the site's template ends in
\* RejectedRenderError with 500, without fallback and without a delivery.
C10_FallbackOnlyWhenTemplateAbsent ==
  \A r \in Reqs :
    LET name == SiteIdOf(r) \o T(".html")
    IN  /\ render[r].path = "fallback" => name \notin DOMAIN templates
        /\ (pc[r] \notin {"Idle", "Received", "Validated"}
            /\ render[r].path # "none" /\ name \in DOMAIN templates
            /\ templates[name] # "echo")
             => /\ pc[r] = "RejectedRenderError"
                /\ resp[r] # <<>> /\ resp[r][1].status = 500
                /\ smtp[r] = <<>>

(***************************************************************************)
(* Fallback rendering                                                      *)
(***************************************************************************)
RowOpen == "<tr><td><strong>"
RowMid  == "</strong></td><td>"
RowEnd  == "</td></tr>"

\* The position of the first fragment of text that is tok, or 0.
FirstAt(text, tok) ==
  IF \E i \in 1..Len(text) : text[i] = tok
  THEN CHOOSE i \in 1..Len(text) : text[i] = tok /\ \A j \in 1..(i - 1) : text[j] # tok
  ELSE 0

\* The rows of a generated fragment, each as <<label, value>>; a fragment
\* that is no sequence of well-formed rows parses to <<"malformed">>.
RECURSIVE ParseRows(_)
ParseRows(text) ==
  IF text = <<>> THEN <<>>
  ELSE LET mid == FirstAt(text, RowMid)
           end == FirstAt(text, RowEnd)
       IN  IF Head(text) # RowOpen \/ mid = 0 \/ end < mid THEN <<"malformed">>
           ELSE LET rest == ParseRows(SubSeq(text, end + 1, Len(text)))
                IN  IF rest = <<"malformed">> THEN rest
                    ELSE << <<SubSeq(text, 2, mid - 1), SubSeq(text, mid + 1, end - 1)>> >>
                         \o rest

\* The distinct field names of a form other than site_id, in the order in
\* which they are first submitted.
RECURSIVE FieldNames(_, _)
FieldNames(form, seen) ==
  IF form = <<>> THEN <<>>
  ELSE LET k == Head(form)[1]
       IN  IF k = KSiteId \/ k \in seen THEN FieldNames(Tail(form), seen)
           ELSE <<k>> \o FieldNames(Tail(form), seen \cup {k})

\* The first value submitted under a field name.
FirstValue(form, k) ==
  form[CHOOSE i \in 1..Len(form) :
         form[i][1] = k /\ \A j \in 1..(i - 1) : form[j][1] # k][2]

Entity(c) ==
  IF c = "&" THEN "&amp;" ELSE IF c = "<" THEN "&lt;" ELSE IF c = ">" THEN "&gt;"
  ELSE IF c = "\"" THEN "&quot;" ELSE IF c = "'" THEN "&#x27;" ELSE c

UpperLetters == {UpperCase[i] : i \in 1..26}
LowerLetters == {LowerCase[i] : i \in 1..26}
LetterPairs == {<<LowerCase[i], UpperCase[i]>> : i \in 1..26}

IsUpper(c) == c \in UpperLetters
IsLower(c) == c \in LowerLetters
SameLetter(c, d) == c = d \/ <<c, d>> \in LetterPairs \/ <<d, c>> \in LetterPairs

\* label is key with "_" as " " and the first letter in upper case, escaped;
\* restLower says whether the letters after the first are put in lower case.
IsLabelOf(label, key, restLower) ==
  /\ Len(label) = Len(key)
  /\ \A i \in 1..Len(key) :
       IF key[i] = "_" THEN label[i] = " "
       ELSE IF i = 1 /\ (IsLower(key[i]) \/ IsUpper(key[i]))
         THEN IsUpper(label[i]) /\ SameLetter(label[i], key[i])
       ELSE IF i > 1 /\ restLower /\ IsUpper(key[i])
         THEN IsLower(label[i]) /\ SameLetter(label[i], key[i])
       ELSE label[i] = Entity(key[i])

\* shown is value escaped, each newline a line break.
IsValueOf(shown, value) ==
  /\ Len(shown) = Len(value)
  /\ \A i \in 1..Len(value) :
       shown[i] = (IF value[i] = "\n" THEN "<br>" ELSE Entity(value[i]))

\* text is exactly one well-formed row for each of names, in their order,
\* each with the label of the name and the first value submitted under it.
RECURSIVE RowsMatch(_, _, _, _)
RowsMatch(text, form, names, restLower) ==
  IF names = <<>> THEN text = <<>>
  ELSE LET mid == FirstAt(text, RowMid)
           end == FirstAt(text, RowEnd)
       IN  /\ text # <<>> /\ Head(text) = RowOpen
           /\ 1 < mid /\ mid < end
           /\ IsLabelOf(SubSeq(text, 2, mid - 1), Head(names), restLower)
           /\ IsValueOf(SubSeq(text, mid + 1, end - 1), FirstValue(form, Head(names)))
           /\ RowsMatch(SubSeq(text, end + 1, Len(text)), form, Tail(names), restLower)

FallbackRowsAre(r, restLower) ==
  RowsMatch(render[r].rows, request[r].form, FieldNames(request[r].form, {}), restLower)

\* C11 (as claimed): in fallback rendering the fragment has exactly one row
\* per submitted field other than site_id, none for site_id, in submission
\* order; the label is the field name with underscores as spaces and its
\* first letter capitalized, label and value are HTML-escaped and each
\* newline of the value is a line break.
C11_FallbackRowsAsClaimed ==
  \A r \in Reqs : render[r].path = "fallback" => FallbackRowsAre(r, FALSE)

\* C11 (amended): as above, with the letters of the label after the first
\* put in lower case, and one row per distinct field name, carrying the
\* first value submitted under it.
C11_FallbackRows ==
  \A r \in Reqs : render[r].path = "fallback" => FallbackRowsAre(r, TRUE)

C11_Witness ==
  \E r1, r2 \in Reqs :
    /\ render[r1].path = "fallback" /\ render[r2].path = "fallback"
    /\ FieldNames(request[r1].form, {}) = <<KFullName, KMessage>>
    /\ FirstValue(request[r1].form, KFullName) = <<"A","&","B">>
    /\ FieldNames(request[r2].form, {}) = <<KReplyTo>>
    /\ Len(request[r2].form) = 4
    /\ Len(ParseRows(render[r2].rows)) = 1

(***************************************************************************)
(* Isolation between requests                                              *)
(***************************************************************************)
\* The credentials entry registered for the site r names.
Registered(r) == smtp_credentials[SiteIdOf(r)]

\* Every call of r's session carries the settings registered for r's site.
UsesOwnCredentials(r) ==
  \A i \in 1..Len(smtp[r]) :
    LET c == smtp[r][i]
    IN  /\ c.call = "SMTP" =>
             /\ c.args[1] = Registered(r).host
             /\ c.args[2] = Registered(r).port
        /\ c.call = "login" =>
             c.args = <<Registered(r).username, Registered(r).password>>
        /\ c.call = "send_message" =>
             /\ c.args[1].To = Registered(r).recipient_email
             /\ c.args[1] = msg[r]

\* C12: under any interleaving of the requests, the session of a request
\* for site s connects to the host and port, logs in with the username and
\* password and sends to the recipient registered for s, and the message it
\* sends is the one rendered for that request.
C12_SessionUsesOwnSiteCredentials ==
  \A r \in Reqs :
    /\ smtp[r] # <<>> => SiteIdOf(r) \in DOMAIN smtp_credentials
    /\ smtp[r] # <<>> => UsesOwnCredentials(r)

C12_Witness ==
  \E r1, r2 \in Reqs :
    /\ SiteIdOf(r1) = Acme /\ SiteIdOf(r2) = Beta
    /\ pc[r1] = "Authenticated" /\ pc[r2] = "Transmitted"
    /\ Registered(r1).password # Registered(r2).password

\* The site r names has a credentials entry that lacks a field the handler
\* requires (the empty entry lacks them all).
EntryIncomplete(r) ==
  /\ SiteIdOf(r) \in DOMAIN allowed_sites
  /\ SiteIdOf(r) \in DOMAIN smtp_credentials
  /\ \E i \in 1..Len(RequiredKeys) : RequiredKeys[i] \notin DOMAIN Registered(r)

\* C13: a site whose credentials entry is present but has missing fields
\* (the empty entry, or one lacking host, port, username, password or
\* recipient_email) ends in an error that is not the absent-credentials
\* one: it is not answered "Missing SMTP credentials".
C13_IncompleteEntryIsNotMissing ==
  \A r \in Reqs :
    (Entered(r) /\ EntryIncomplete(r))
      => /\ resp[r] # <<>>
         /\ resp[r][1].status >= 400
         /\ resp[r] # <<MissingCredentials>>

\* How many calls named call the session of r has made.
Count(r, call) == Cardinality({i \in 1..Len(smtp[r]) : smtp[r][i].call = call})

\* How many of them returned.
CountOk(r, call) ==
  Cardinality({i \in 1..Len(smtp[r]) : smtp[r][i].call = call /\ smtp[r][i].ok})

\* C14: nothing is retried and nothing is deduplicated: a handled submission
\* makes at most one connection attempt, one login and one transmission,
\* and of two identical submissions that both succeed each has made its own
\* transmission.
C14_NoRetryNoDeduplication ==
  /\ \A r \in Reqs :
       \A call \in {"SMTP", "starttls", "login", "send_message", "quit"} :
         Count(r, call) <= 1
  /\ \A r1, r2 \in Reqs :
       (r1 # r2 /\ request[r1] = request[r2]
        /\ resp[r1] = <<Success>> /\ resp[r2] = <<Success>>)
         => CountOk(r1, "send_message") = 1 /\ CountOk(r2, "send_message") = 1

C14_Witness ==
  \E r1, r2 \in Reqs :
    /\ r1 # r2 /\ request[r1] = request[r2]
    /\ resp[r1] = <<Success>> /\ resp[r2] = <<Success>>
    /\ CountOk(r1, "send_message") = 1 /\ CountOk(r2, "send_message") = 1

\* The headers the message of r is to carry, read off the registry.
HeadersFor(r) ==
  LET c == Registered(r)
      from_email == IF "from_email" \in DOMAIN c THEN c.from_email ELSE c.username
      from_name == IF "from_name" \in DOMAIN c THEN c.from_name ELSE SiteIdOf(r)
  IN  [Subject |-> <<"New Contact Form Submission from ">> \o SiteIdOf(r),
       From |-> from_name \o <<" <">> \o from_email \o <<">">>,
       To |-> c.recipient_email]

\* C15: every message handed to the SMTP session has Subject "New Contact
\* Form Submission from {site_id}", From "{from_name} <{from_email}>" and To
\* the site's recipient_email, from_email defaulting to the username and
\* from_name to the site_id, and carries exactly one HTML body part.
C15_MessageHeaders ==
  \A r \in Reqs :
    \A i \in 1..Len(smtp[r]) :
      smtp[r][i].call = "send_message" =>
        LET m == smtp[r][i].args[1]
        IN  /\ m.Subject = HeadersFor(r).Subject
            /\ m.From = HeadersFor(r).From
            /\ m.To = HeadersFor(r).To
            /\ Len(m.parts) = 1
            /\ m.parts[1].subtype = "html"
            /\ m.parts[1].payload = render[r].html

C15_Witness ==
  \E r1, r2 \in Reqs :
    /\ SiteIdOf(r1) = Acme /\ "from_name" \notin DOMAIN Registered(r1)
    /\ "from_email" \notin DOMAIN Registered(r1)
    /\ SiteIdOf(r2) = Beta /\ "from_name" \in DOMAIN Registered(r2)
    /\ Count(r1, "send_message") = 1 /\ Count(r2, "send_message") = 1
    /\ msg[r1].From = Acme \o <<" <", "mailer@">> \o Acme \o <<">">>
    /\ msg[r2].From = <<"Beta Forms", " <", "forms@beta", ">">>

(***************************************************************************)
(* Confidentiality of the SMTP password                                    *)
(***************************************************************************)
\* secret occurs in text as a run of consecutive fragments.
Occurs(secret, text) ==
  \E i \in 1..(Len(text) - Len(secret) + 1) :
    SubSeq(text, i, i + Len(secret) - 1) = secret

LastCall(r) == smtp[r][Len(smtp[r])].call

\* What r has logged and been answered, told from the submission, the
\* outcome and the cause of a delivery failure alone: no credential is read.
PublicLog(r) ==
  CASE pc[r] = "RejectedUnknownSite" ->
         << [level |-> "warning",
             text |-> <<"Rejected form: unknown site_id '">> \o SiteIdOf(r) \o <<"'">>] >>
    [] pc[r] = "RejectedNoCredentials" ->
         << [level |-> "error",
             text |-> <<"No SMTP credentials for site_id '">> \o SiteIdOf(r) \o <<"'">>] >>
    [] pc[r] = "RejectedDeliveryError" ->
         << [level |-> "error", text |-> <<"Email failed: ", SmtpCause(LastCall(r))>>] >>
    [] pc[r] = "Responded" ->
         << [level |-> "info", text |-> <<"Email sent for site_id: ">> \o SiteIdOf(r)] >>
    [] OTHER -> <<>>

PublicResponse(r) ==
  CASE pc[r] = "RejectedUnknownSite" -> <<InvalidSite>>
    [] pc[r] = "RejectedNoCredentials" -> <<MissingCredentials>>
    [] pc[r] = "RejectedDeliveryError" ->
         << [status |-> 500, ctype |-> "application/json",
             body |-> [success |-> FALSE, error |-> SmtpCause(LastCall(r))]] >>
    [] pc[r] = "Responded" -> <<Success>>
    [] pc[r] \in {"Faulted", "RejectedRenderError"} ->
         << [status |-> 500, ctype |-> "text/html",
             body |-> [html |-> "Internal Server Error"]] >>
    [] OTHER -> <<>>

\* The password registered for r's site goes into no call but login, and
\* into no header or body of the message.
PasswordOnlyInLogin(r) ==
  LET secret == Registered(r).password
  IN  /\ \A i \in 1..Len(log[r]) : ~Occurs(secret, log[r][i].text)
      /\ \A i \in 1..Len(smtp[r]) :
           LET c == smtp[r][i]
           IN  /\ c.call = "SMTP" => ~Occurs(secret, c.args[1])
               /\ c.call \in {"starttls", "quit"} => c.args = <<>>
               /\ c.call = "send_message" =>
                    /\ ~Occurs(secret, c.args[1].Subject)
                    /\ ~Occurs(secret, c.args[1].From)
                    /\ ~Occurs(secret, c.args[1].To)
                    /\ ~Occurs(secret, c.args[1].parts[1].payload)

\* C16: the SMTP password is never logged or echoed.  Every log line and
\* every response is what the submission, the outcome and the SMTP cause
\* determine, so that two runs that differ in a password alone log and
\* answer the same; and the password value reaches the login call only.
C16_PasswordNeverDisclosed ==
  \A r \in Reqs :
    /\ log[r] = PublicLog(r)
    /\ resp[r] = PublicResponse(r)
    /\ (SiteIdOf(r) \in DOMAIN smtp_credentials
        /\ "password" \in DOMAIN Registered(r)) => PasswordOnlyInLogin(r)

C16_Witness ==
  \E r1, r2 \in Reqs :
    /\ pc[r1] = "RejectedDeliveryError" /\ LastCall(r1) = "login"
    /\ smtp[r1][Len(smtp[r1])].args[2] = Registered(r1).password
    /\ pc[r2] = "Responded"
    /\ \E i \in 1..Len(smtp[r2]) :
         smtp[r2][i].call = "login" /\ smtp[r2][i].args[2] = Registered(r2).password

\* C17: the site registry, the credentials registry and the origin map are
\* left unchanged by every request: after any sequence or interleaving of
\* submit_form and cors_origin_validator calls, whatever their outcome,
\* all three have the values they had at the end of startup.
C17_RegistriesUnchanged ==
  /\ allowed_sites = AllowedSitesFile
  /\ smtp_credentials = SmtpCredentialsFile
  /\ DOMAIN origin_map = DOMAIN AllowedSitesFile
  /\ \A s \in DOMAIN AllowedSitesFile : origin_map[s] = AllowedSitesFile[s]

C17_Witness ==
  \E r1, r2 \in Reqs :
    /\ pc[r1] = "RejectedDeliveryError" /\ LastCall(r1) = "login"
    /\ pc[r2] = "Responded"
    /\ smtp_credentials = SmtpCredentialsFile

\* C18: within one request the delivery calls come in the order connect,
\* STARTTLS (only when secure is tls), login, send_message, quit, each at
\* most once and each only after every earlier one returned; a message is
\* never transmitted on a session that has not logged in successfully.
C18_DeliveryOrder ==
  \A r \in Reqs :
    LET names == CallNames(smtp[r])
    IN  /\ Len(names) <= Len(FullSession(r))
        /\ \A i \in 1..Len(names) : names[i] = FullSession(r)[i]
        /\ \A i \in 1..(Len(names) - 1) : smtp[r][i].ok
        /\ \A i \in 1..Len(names) :
             names[i] = "send_message" =>
               \E j \in 1..(i - 1) : names[j] = "login" /\ smtp[r][j].ok

C18_Witness ==
  \E r1, r2 \in Reqs :
    /\ CallNames(smtp[r1]) = <<"SMTP", "starttls", "login", "send_message", "quit">>
    /\ CallNames(smtp[r2]) = <<"SMTP", "login", "send_message">>
    /\ ~smtp[r2][3].ok

\* C19: no template is rendered and no SMTP connection is opened for a
\* request that ends in RejectedUnknownSite or RejectedNoCredentials;
\* credentials registered for a site_id that the site registry lacks are
\* never used; a connection is opened only after the body was rendered.
C19_NoWorkForRejected ==
  \A r \in Reqs :
    /\ pc[r] \in {"RejectedUnknownSite", "RejectedNoCredentials"}
         => render[r] = NoRender /\ smtp[r] = <<>> /\ DOMAIN msg[r] = {}
    /\ (pc[r] # "Idle" /\ SiteIdOf(r) \notin DOMAIN allowed_sites)
         => DOMAIN loc[r] \subseteq {"site_id"} /\ smtp[r] = <<>>
    /\ smtp[r] # <<>>
         => /\ render[r].path \in {"site", "fallback"}
            /\ DOMAIN msg[r] # {}
            /\ msg[r].parts[1].payload = render[r].html

C19_Witness ==
  \E r1, r2 \in Reqs :
    /\ pc[r1] = "RejectedUnknownSite" /\ SiteIdOf(r1) = Ghost
    /\ Ghost \in DOMAIN smtp_credentials
    /\ pc[r2] = "RejectedNoCredentials" /\ SiteIdOf(r2) = Eps

\* r was answered, and not with {success: true}.
AnsweredFailure(r) == resp[r] # <<>> /\ resp[r][1].body # [success |-> TRUE]

AnsweredSuccess(r) == resp[r] # <<>> /\ resp[r][1].body = [success |-> TRUE]

\* send_message returned and the quit() after it raised.
SentThenQuitFailed(r) ==
  /\ CountOk(r, "send_message") = 1
  /\ LastCall(r) = "quit" /\ ~smtp[r][Len(smtp[r])].ok

\* C20 (as claimed): the response reflects whether the e-mail was handed to
\* the SMTP server: answered success: false (400 or 500), send_message did
\* not return for that request; answered success: true, it returned exactly
\* once.
C20_ResponseReflectsHandOver ==
  \A r \in Reqs :
    /\ AnsweredFailure(r) => CountOk(r, "send_message") = 0
    /\ AnsweredSuccess(r) => CountOk(r, "send_message") = 1

\* C20 (amended): answered success: false, either send_message did not
\* return, or it returned and the quit() that followed raised; answered
\* success: true, send_message returned exactly once.
C20_ResponseReflectsHandOverOrQuit ==
  \A r \in Reqs :
    /\ AnsweredFailure(r) => CountOk(r, "send_message") = 0 \/ SentThenQuitFailed(r)
    /\ AnsweredSuccess(r) => CountOk(r, "send_message") = 1

C20_Witness ==
  \E r1, r2 \in Reqs :
    /\ AnsweredFailure(r1) /\ SentThenQuitFailed(r1)
    /\ AnsweredSuccess(r2) /\ CountOk(r2, "send_message") = 1

====
